---- MODULE Spec2Model ----
(***************************************************************************)
(* Shelf-scan book identification (server/bookMatcher.ts): clustering of   *)
(* OCR fragments into spines, string similarity and match scoring, the     *)
(* per-cluster Google Books search and the batched, deduplicating          *)
(* aggregator matchBooksFromOCR; and the scan page of the client           *)
(* (client/src/pages/ScanPage.tsx), which sends camera frames to the       *)
(* server and merges the matches of the responses.                         *)
(*                                                                         *)
(* Strings are sequences of one-character strings.  Scores are integers in *)
(* thousandths (456 is 0.456); similarities are exact fractions num/den.   *)
(* Horizontal centers are kept doubled (2x + width) so that width/2 stays  *)
(* an integer.                                                             *)
(***************************************************************************)
EXTENDS Integers, Sequences, FiniteSets, TLC

\* The state of the invocations of matchBooksFromOCR
VARIABLES
  fragments,            \* [Runs -> the fragments argument]
  confidenceThreshold,  \* the confidenceThreshold argument, in thousandths
  provider,             \* request query -> behaviour, fixed at first answer
  pc,                   \* [Runs -> "idle" | "await" | "returned" | "thrown"]
  clusters,             \* [Runs -> clusterFragments(fragments)]
  i,                    \* [Runs -> loop index of the batch loop]
  seenIds,              \* [Runs -> set of googleBooksId]
  allMatches,           \* [Runs -> accumulated entries]
  tasks,                \* [Runs -> the promises of batch.map, in batch order]
  result,               \* [Runs -> the returned list]
  issued,               \* [Runs -> clusters searched so far, in call order]
  call,                 \* a function applied on its own: [fn, arguments]
  ret,                  \* [done, value]: the value that call returned
  \* The state of ScanPage
  mode,                 \* "idle" | "scanning" | "results"
  intervalRef,          \* intervalRef.current: a timer id, or 0 for null
  streamRef,            \* streamRef.current is a MediaStream
  isProcessingRef,      \* isProcessingRef.current
  detectedMapRef,       \* detectedMapRef.current: googleBooksId -> match
  timers,               \* the ids of the intervals armed in the browser
  starting,             \* [camera, session]: calls of startScanning awaiting
  requests,             \* the POST /api/scan/frame requests in flight
  epoch,                \* calls of startScanning so far
  sent,                 \* frame requests sent so far
  reported              \* id -> highest confidence processed since the reset

----------------------------------------------------------------------------
(* Characters and JavaScript string primitives                             *)

Upper == <<"A","B","C","D","E","F","G","H","I","J","K","L","M",
           "N","O","P","Q","R","S","T","U","V","W","X","Y","Z">>

Lower == <<"a","b","c","d","e","f","g","h","i","j","k","l","m",
           "n","o","p","q","r","s","t","u","v","w","x","y","z">>

Digits == {"0","1","2","3","4","5","6","7","8","9"}

LowerSet == {Lower[k] : k \in 1..26}

\* \s of the regular expressions
IsSpace(c) == c = " "

Min2(a, b) == IF a <= b THEN a ELSE b

Max2(a, b) == IF a >= b THEN a ELSE b

Min3(a, b, c) == Min2(a, Min2(b, c))

RECURSIVE Gcd(_, _)
Gcd(a, b) == IF b = 0 THEN a ELSE Gcd(b, a % b)

\* String.prototype.toLowerCase
toLowerCase(s) ==
  [n \in 1..Len(s) |->
     IF \E k \in 1..26 : Upper[k] = s[n]
     THEN Lower[CHOOSE k \in 1..26 : Upper[k] = s[n]]
     ELSE s[n]]

\* .replace(/[^a-z0-9\s]/g, "")
stripNonAlnum(s) ==
  SelectSeq(s, LAMBDA c : c \in LowerSet \/ c \in Digits \/ IsSpace(c))

\* String.prototype.trim
RECURSIVE trimStart(_)
trimStart(s) ==
  IF s # <<>> /\ IsSpace(Head(s)) THEN trimStart(Tail(s)) ELSE s

RECURSIVE trimEnd(_)
trimEnd(s) ==
  IF s # <<>> /\ IsSpace(s[Len(s)])
  THEN trimEnd(SubSeq(s, 1, Len(s) - 1))
  ELSE s

trim(s) == trimEnd(trimStart(s))

\* Array.prototype.join(" ")
RECURSIVE join(_)
join(texts) ==
  IF texts = <<>> THEN <<>>
  ELSE IF Len(texts) = 1 THEN texts[1]
  ELSE texts[1] \o <<" ">> \o join(Tail(texts))

\* String.prototype.split(/\s+/): a run of whitespace is one separator; a
\* leading or trailing run leaves an empty first or last part.  splitUpTo
\* is the list of parts of s[1..n], the last part still open
RECURSIVE splitUpTo(_, _)
splitUpTo(s, n) ==
  IF n = 0 THEN << <<>> >>
  ELSE LET parts == splitUpTo(s, n - 1)
       IN IF IsSpace(s[n])
          THEN IF n > 1 /\ IsSpace(s[n - 1]) THEN parts
               ELSE Append(parts, <<>>)
          ELSE [parts EXCEPT ![Len(parts)] = Append(@, s[n])]

split(s) == splitUpTo(s, Len(s))

\* String.prototype.includes
includes(s, part) ==
  \E k \in 0..(Len(s) - Len(part)) : SubSeq(s, k + 1, k + Len(part)) = part

\* A slice that keeps the whole string
sliceWhole(s, n) == s

\* String.prototype.slice(0, n)
slice(s, n) == SubSeq(s, 1, Min2(Len(s), n))

----------------------------------------------------------------------------
(* Similarity scorer                                                       *)

\* dp[row][0..j] of the Levenshtein table as a sequence (position j+1
\* holds dp[row][j]), from prev = dp[row-1][0..n]
RECURSIVE levCells(_, _, _, _, _)
levCells(ai, b, prev, row, j) ==
  IF j = 0 THEN <<row>>
  ELSE LET left == levCells(ai, b, prev, row, j - 1)
       IN Append(left, IF ai = b[j]
                       THEN prev[j]
                       ELSE 1 + Min3(prev[j + 1], left[j], prev[j]))

\* dp[hi][0..n] from prev = dp[lo-1][0..n]: the rows lo..hi of the outer
\* loop, taken in order (the range is halved to keep the evaluation
\* shallow on long texts)
RECURSIVE levRows(_, _, _, _, _)
levRows(a, b, prev, lo, hi) ==
  IF lo > hi THEN prev
  ELSE IF lo = hi THEN levCells(a[lo], b, prev, lo, Len(b))
  ELSE LET mid   == (lo + hi) \div 2
           upper == levRows(a, b, prev, lo, mid)
       IN IF Len(upper) = Len(b) + 1
          THEN levRows(a, b, upper, mid + 1, hi)
          ELSE <<>>

\* dp[row][0..n]
levRow(a, b, row) ==
  levRows(a, b, [j \in 1..(Len(b) + 1) |-> j - 1], 1, row)

levenshtein(a, b) == levRow(a, b, Len(a))[Len(b) + 1]

\* A similarity normalised by the length of the first string
similarityByFirst(a, b) ==
  IF Len(a) = 0 /\ Len(b) = 0 THEN [num |-> 1, den |-> 1]
  ELSE [num |-> Len(a) - levenshtein(a, b), den |-> Len(a)]

\* 1 - levenshtein(a, b) / maxLen as the exact fraction num/den
normalizedSimilarity(a, b) ==
  IF Len(a) = 0 /\ Len(b) = 0 THEN [num |-> 1, den |-> 1]
  ELSE LET maxLen == Max2(Len(a), Len(b))
       IN [num |-> maxLen - levenshtein(a, b), den |-> maxLen]

\* "normalizedSimilarity(...) > 0.3" in IEEE-754 doubles: the double
\* 1 - 7/10 is 0.30000000000000004, above the literal 0.3, so a similarity
\* of exactly 3/10 passes the test
above03(sim) == 10 * sim.num >= 3 * sim.den

\* "normalizedSimilarity(...) > 0.8" in IEEE-754 doubles: 1 - 1/5 is the
\* literal 0.8, the test is the exact one
above08(sim) == 10 * sim.num > 8 * sim.den

\* The exact halves x.5 of score * 1000 that the double arithmetic of
\* titleScore * 0.7 + authorScore * 0.3 (* 0.5 | * 0.8) leaves just below
\* x.5, so that Math.round rounds them down: <<num, den, authorScore,
\* penalty in thousandths>>, titleScore = num/den in lowest terms, den <= 120
TiesRoundedDown == {
    <<3, 4, 0, 500>>, <<7, 20, 0, 500>>, <<7, 20, 1, 500>>,
    <<9, 20, 0, 500>>, <<13, 20, 0, 500>>, <<13, 20, 1, 500>>,
    <<19, 20, 0, 500>>, <<19, 20, 1, 500>>, <<1, 28, 0, 500>>,
    <<1, 28, 1, 500>>, <<3, 28, 0, 500>>, <<3, 28, 1, 500>>,
    <<9, 28, 0, 500>>, <<9, 28, 1, 500>>, <<15, 28, 0, 500>>,
    <<15, 28, 1, 500>>, <<19, 28, 1, 500>>, <<27, 28, 0, 500>>,
    <<27, 28, 1, 500>>, <<7, 100, 0, 500>>, <<9, 100, 0, 500>>,
    <<11, 100, 0, 500>>, <<19, 100, 0, 500>>, <<19, 100, 1, 500>>,
    <<21, 100, 0, 500>>, <<21, 100, 1, 500>>, <<23, 100, 0, 500>>,
    <<23, 100, 1, 500>>, <<33, 100, 0, 500>>, <<33, 100, 1, 500>>,
    <<37, 100, 1, 500>>, <<39, 100, 0, 500>>, <<47, 100, 0, 500>>,
    <<63, 100, 0, 500>>, <<63, 100, 1, 500>>, <<67, 100, 0, 500>>,
    <<67, 100, 1, 500>>, <<69, 100, 0, 500>>, <<69, 100, 1, 500>>,
    <<71, 100, 0, 500>>, <<71, 100, 1, 500>>, <<77, 100, 0, 500>>,
    <<79, 100, 0, 500>>, <<93, 100, 0, 500>>, <<93, 100, 1, 500>>,
    <<97, 100, 0, 500>>, <<97, 100, 1, 500>>, <<99, 100, 1, 500>>,
    <<1, 32, 0, 800>>, <<3, 32, 0, 800>>, <<9, 32, 1, 800>>,
    <<11, 32, 1, 800>>, <<21, 32, 1, 800>>, <<23, 32, 0, 800>>,
    <<29, 32, 0, 800>>, <<1, 8, 1, 1000>>, <<3, 8, 0, 1000>>,
    <<7, 8, 0, 1000>>, <<7, 8, 1, 1000>>, <<3, 40, 0, 1000>>,
    <<3, 40, 1, 1000>>, <<9, 40, 0, 1000>>, <<9, 40, 1, 1000>>,
    <<13, 40, 0, 1000>>, <<17, 40, 1, 1000>>, <<19, 40, 0, 1000>>,
    <<23, 40, 0, 1000>>, <<23, 40, 1, 1000>>, <<29, 40, 0, 1000>>,
    <<29, 40, 1, 1000>>, <<33, 40, 0, 1000>>, <<39, 40, 1, 1000>>,
    <<9, 56, 0, 1000>>, <<11, 56, 0, 1000>>, <<11, 56, 1, 1000>>,
    <<13, 56, 0, 1000>>, <<13, 56, 1, 1000>>, <<23, 56, 1, 1000>>,
    <<25, 56, 0, 1000>>, <<25, 56, 1, 1000>>, <<27, 56, 0, 1000>>,
    <<29, 56, 0, 1000>>, <<29, 56, 1, 1000>>, <<33, 56, 1, 1000>>,
    <<37, 56, 0, 1000>>, <<39, 56, 0, 1000>>, <<39, 56, 1, 1000>>,
    <<43, 56, 0, 1000>>, <<43, 56, 1, 1000>>, <<53, 56, 1, 1000>>,
    <<55, 56, 0, 1000>>, <<55, 56, 1, 1000>>
  }

\* Math.round(score * 1000): num/den is score * 1000 as an exact fraction
roundThousandths(sim, authorScore, penalty) ==
  LET num == (700 * sim.num + 300 * authorScore * sim.den) * penalty
      den == 1000 * sim.den
      g   == Gcd(sim.num, sim.den)
      tie == (2 * num) % (2 * den) = den
  IN IF tie /\ <<sim.num \div g, sim.den \div g, authorScore, penalty>>
                  \in TiesRoundedDown
     THEN num \div den
     ELSE (2 * num + den) \div (2 * den)

\* An author score that adds one for every part passing the tests
authorScoreSummed(normCluster, bookAuthors) ==
  Cardinality(
    {kp \in UNION {{<<k, p>> :
                      p \in 1..Len(split(toLowerCase(bookAuthors[k])))} :
                     k \in 1..Len(bookAuthors)} :
       LET part == split(toLowerCase(bookAuthors[kp[1]]))[kp[2]]
           sim  == normalizedSimilarity(normCluster, part)
       IN /\ Len(part) >= 3
          /\ above03(sim)
          /\ (includes(normCluster, part) \/ above08(sim))})

\* An author credited only when every part of the name passes the tests
authorScoreAllParts(normCluster, bookAuthors) ==
  IF \E k \in 1..Len(bookAuthors) :
       LET parts == split(toLowerCase(bookAuthors[k]))
       IN \A p \in 1..Len(parts) :
            LET part == parts[p]
                sim  == normalizedSimilarity(normCluster, part)
            IN /\ Len(part) >= 3
               /\ above03(sim)
               /\ (includes(normCluster, part) \/ above08(sim))
  THEN 1 ELSE 0

\* An author credited on the inner test alone, without the 0.3 gate
authorScoreUngated(normCluster, bookAuthors) ==
  IF \E k \in 1..Len(bookAuthors) :
       LET parts == split(toLowerCase(bookAuthors[k]))
       IN \E p \in 1..Len(parts) :
            LET part == parts[p]
                sim  == normalizedSimilarity(normCluster, part)
            IN /\ Len(part) >= 3
               /\ (includes(normCluster, part) \/ above08(sim))
  THEN 1 ELSE 0

\* authorScore of scoreMatch: 1 when some part of some author passes the
\* two nested tests, 0 otherwise
authorScoreOf(normCluster, bookAuthors) ==
  IF \E k \in 1..Len(bookAuthors) :
       LET parts == split(toLowerCase(bookAuthors[k]))
       IN \E p \in 1..Len(parts) :
            LET part == parts[p]
                sim  == normalizedSimilarity(normCluster, part)
            IN /\ Len(part) >= 3
               /\ above03(sim)
               /\ (includes(normCluster, part) \/ above08(sim))
  THEN 1 ELSE 0

normalize(text) == trim(stripNonAlnum(toLowerCase(text)))

\* A penalty whose two length tests include their limits
lengthPenaltyInclusive(normCluster) ==
  IF Len(normCluster) <= 4 THEN 500
  ELSE IF Len(normCluster) <= 8 THEN 800
  ELSE 1000

\* A penalty with one step only
lengthPenaltyOneStep(normCluster) ==
  IF Len(normCluster) < 8 THEN 800 ELSE 1000

lengthPenalty(normCluster) ==
  IF Len(normCluster) < 4 THEN 500
  ELSE IF Len(normCluster) < 8 THEN 800
  ELSE 1000

\* scoreMatch, in thousandths
scoreMatch(clusterText, bookTitle, bookAuthors) ==
  LET normCluster == normalize(clusterText)
      normTitle   == normalize(bookTitle)
      titleScore  == normalizedSimilarity(normCluster, normTitle)
      authorScore == authorScoreOf(normCluster, bookAuthors)
  IN roundThousandths(titleScore, authorScore, lengthPenalty(normCluster))

----------------------------------------------------------------------------
(* Spine clusterer                                                         *)

\* The clusterer's default proximityPx
DefaultProximityPx == 80

\* An OcrFragment: [text, x, y, width]; bounds.height is never read
\* bounds.x + bounds.width / 2, doubled
center2(f) == 2 * f.x + f.width

Abs(n) == IF n < 0 THEN -n ELSE n

\* Array.prototype.sort with a comparator a.key - b.key is a stable sort by
\* key (ECMAScript 2019); pairs are <<key, item>>
RECURSIVE insertStable(_, _)
insertStable(sorted, p) ==
  IF sorted = <<>> THEN <<p>>
  ELSE IF sorted[Len(sorted)][1] <= p[1] THEN Append(sorted, p)
  ELSE Append(insertStable(SubSeq(sorted, 1, Len(sorted) - 1), p),
              sorted[Len(sorted)])

RECURSIVE stableSort(_)
stableSort(pairs) ==
  IF pairs = <<>> THEN <<>>
  ELSE insertStable(stableSort(SubSeq(pairs, 1, Len(pairs) - 1)),
                    pairs[Len(pairs)])

sortByCenter(frags) ==
  LET s == stableSort([k \in 1..Len(frags) |->
                         <<center2(frags[k]), frags[k]>>])
  IN [k \in 1..Len(s) |-> s[k][2]]

sortByY(cluster) ==
  LET s == stableSort([k \in 1..Len(cluster) |-> <<cluster[k].y, cluster[k]>>])
  IN [k \in 1..Len(s) |-> s[k][2]]

\* The proximity test with a strict comparison
withinStrict(fragCenter2, lastCenter2, proximityPx) ==
  Abs(fragCenter2 - lastCenter2) < 2 * proximityPx

\* "Math.abs(fragCenter - lastCenter) <= proximityPx", on doubled centers
within(fragCenter2, lastCenter2, proximityPx) ==
  Abs(fragCenter2 - lastCenter2) <= 2 * proximityPx

\* A sweep that measures from the first fragment of the open group
RECURSIVE sweepAnchored(_, _, _, _)
sweepAnchored(sorted, n, groups, proximityPx) ==
  IF n > Len(sorted) THEN groups
  ELSE LET frag         == sorted[n]
           lastCluster  == groups[Len(groups)]
           firstCenter2 == center2(lastCluster[1])
       IN IF within(center2(frag), firstCenter2, proximityPx)
          THEN sweepAnchored(sorted, n + 1,
                             [groups EXCEPT ![Len(groups)] = Append(@, frag)],
                             proximityPx)
          ELSE sweepAnchored(sorted, n + 1, Append(groups, <<frag>>),
                             proximityPx)

\* The left-to-right sweep over sorted[n..]: a fragment joins the open (last)
\* group when its center is within proximityPx of the last fragment pushed
\* to that group
RECURSIVE sweep(_, _, _, _)
sweep(sorted, n, groups, proximityPx) ==
  IF n > Len(sorted) THEN groups
  ELSE LET frag        == sorted[n]
           lastCluster == groups[Len(groups)]
           lastCenter2 == center2(lastCluster[Len(lastCluster)])
       IN IF within(center2(frag), lastCenter2, proximityPx)
          THEN sweep(sorted, n + 1,
                     [groups EXCEPT ![Len(groups)] = Append(@, frag)],
                     proximityPx)
          ELSE sweep(sorted, n + 1, Append(groups, <<frag>>), proximityPx)

\* The texts of a group in the order of the sweep
textsInSweepOrder(cluster) == [k \in 1..Len(cluster) |-> cluster[k].text]

textsOf(cluster) ==
  LET s == sortByY(cluster) IN [k \in 1..Len(s) |-> s[k].text]

\* A filter that keeps only texts longer than three characters
keepLonger(texts) == Len(trim(join(texts))) > 3

\* The ".filter(texts => texts.join(" ").trim().length >= 3)"
keepCluster(texts) == Len(trim(join(texts))) >= 3

\* The groups of the sweep, each as its texts from top to bottom, before
\* the filter
groupTexts(frags, proximityPx) ==
  IF Len(frags) = 0 THEN <<>>
  ELSE LET sorted == sortByCenter(frags)
           groups == sweep(sorted, 2, << <<sorted[1]>> >>, proximityPx)
       IN [k \in 1..Len(groups) |-> textsOf(groups[k])]

clusterFragments(frags, proximityPx) ==
  IF Len(frags) = 0 THEN <<>>
  ELSE SelectSeq(groupTexts(frags, proximityPx), keepCluster)

----------------------------------------------------------------------------
(* Google Books search per cluster                                         *)

\* The query is cut to its first 100 characters for the request
QueryCap == 100

Str(chars) == [t |-> "str", s |-> chars]

\* A JSON field that is missing, and one that holds a number
Absent == [t |-> "absent", s |-> <<>>]

Num == [t |-> "num", s |-> <<>>]

Untitled == <<"U","n","t","i","t","l","e","d">>

UnknownAuthor == <<"U","n","k","n","o","w","n"," ","A","u","t","h","o","r">>

\* One element of data.items mapped to a result: info.title || "Untitled",
\* info.authors || ["Unknown Author"].  An item is [id, title, authors,
\* hasAuthors]; a title is a JSON value, "" and a missing title are falsy
mapItem(item) ==
  [googleBooksId |-> item.id,
   title   |-> IF item.title.t = "absent"
                  \/ (item.title.t = "str" /\ item.title.s = <<>>)
               THEN Str(Untitled) ELSE item.title,
   authors |-> IF item.hasAuthors THEN item.authors ELSE <<UnknownAuthor>>]

\* (data.items || []).map(...)
mapItems(items) == [k \in 1..Len(items) |-> mapItem(items[k])]

----------------------------------------------------------------------------
(* Per-cluster resolution: the body of the batch.map callback after the    *)
(* search has returned                                                     *)

\* bookTitle.toLowerCase() is a TypeError when the title is not a string
scoreThrows(candidate) == candidate.title.t # "str"

\* An acceptance test that keeps the first result reaching the threshold
acceptsFirst(score, bestScore, threshold) ==
  bestScore = 0 /\ score > 0 /\ score >= threshold

\* The acceptance test without the comparison to the best score so far
acceptsLatest(score, bestScore, threshold) ==
  score >= threshold

\* The acceptance test without its threshold half
acceptsAnyImprovement(score, bestScore, threshold) ==
  score > bestScore

\* The acceptance test with a strict threshold comparison
acceptsAboveThreshold(score, bestScore, threshold) ==
  score > bestScore /\ score > threshold

\* "score > bestScore && score >= confidenceThreshold"
accepts(score, bestScore, threshold) ==
  score > bestScore /\ score >= threshold

\* The scoring loop over results[from..]; best is <<>> (null) or <<match>>
RECURSIVE pickBest(_, _, _, _, _, _)
pickBest(queryText, clusterTexts, results, from, best, threshold) ==
  IF from > Len(results) THEN best
  ELSE LET candidate == results[from]
           score     == scoreMatch(queryText, candidate.title.s,
                                   candidate.authors)
           bestScore == IF best = <<>> THEN 0 ELSE best[1].confidenceScore
       IN IF accepts(score, bestScore, threshold)
          THEN pickBest(queryText, clusterTexts, results, from + 1,
                        << [googleBooksId    |-> candidate.googleBooksId,
                            title            |-> candidate.title.s,
                            authors          |-> candidate.authors,
                            confidenceScore  |-> score,
                            matchedFragments |-> clusterTexts] >>,
                        threshold)
          ELSE pickBest(queryText, clusterTexts, results, from + 1, best,
                        threshold)

bestMatchOf(clusterTexts, results, threshold) ==
  pickBest(trim(join(clusterTexts)), clusterTexts, results, 1, <<>>,
           threshold)

----------------------------------------------------------------------------
(* Inputs: the photographed shelves and the search provider                *)

\* Bounds of the model
MaxFragments == 7

MaxFaults == 1

\* matchBooksFromOCR's default confidenceThreshold, 0.45
DefaultThreshold == 450

\* Clusters resolved concurrently per batch
BatchSize == 5

Runs == {"a", "b"}

Frag(text, x, y, width) == [text |-> text, x |-> x, y |-> y, width |-> width]

\* Spines of a shelf, one fragment each, horizontal centers 100 px apart
Shelf == <<
  Frag(<<"D","u","n","e">>,                                  80, 10, 40),
  Frag(<<"H","e","r","b","e","r","t"," ","D","u","n","e">>, 180, 40, 40),
  Frag(<<"D","u","n","e"," ","M","e","s","s","i","a","h">>, 280, 20, 40),
  Frag(<<"D","u","n","e","s">>,                             380, 10, 40),
  Frag(<<"x","y","z">>,                                     480, 30, 40),
  Frag(<<"E","m","m","a">>,                                 580, 10, 40),
  Frag(<<"D","U","N","E">>,                                 680, 10, 40),
  Frag(<<"F","r","a","n","k"," ","H","e","r","b","e","r","t">>, 780, 10, 40),
  Frag(<<"E","m","m","a"," ","A","u","s","t","e","n">>,     880, 10, 40) >>

\* One spine in three stacked fragments, centers 50, 52 and 53
DuneScene == <<
  Frag(<<"F","r","a","n","k">>,             32, 120, 40),
  Frag(<<"D","u","n","e">>,                 30,  40, 40),
  Frag(<<"H","e","r","b","e","r","t">>,     33, 200, 40) >>

\* A fragment too short to survive the length filter
NoiseScene == << Frag(<<"I","t">>, 300, 10, 20) >>

Scenes ==
  {SubSeq(Shelf, 1, n) : n \in 0..Min2(MaxFragments, Len(Shelf))}
    \cup {DuneScene, NoiseScene}

Thresholds == {0, DefaultThreshold}

Item(id, title, authors) ==
  [id |-> id, title |-> Str(title), authors |-> authors, hasAuthors |-> TRUE]

Dune1 == Item("dune1", <<"D","u","n","e">>,
              << <<"F","r","a","n","k"," ","H","e","r","b","e","r","t">> >>)

Dune2 == Item("dune2", <<"D","u","n","e"," ","M","e","s","s","i","a","h">>,
              << <<"F","r","a","n","k"," ","H","e","r","b","e","r","t">> >>)

Emma1 == Item("emma1", <<"E","m","m","a">>,
              << <<"J","a","n","e"," ","A","u","s","t","e","n">> >>)

\* The items the provider holds for a query, in the provider's own order
Catalogue(query) ==
  LET q == normalize(query)
  IN IF q = <<"d","u","n","e">> THEN <<Dune2, Dune1>>
     ELSE IF q = <<"d","u","n","e"," ","f","r","a","n","k"," ",
                   "h","e","r","b","e","r","t">> THEN <<Dune1>>
     ELSE IF q = <<"d","u","n","e","s">> THEN <<Dune1>>
     ELSE IF q = <<"x","y","z">> THEN <<Emma1>>
     ELSE IF includes(q, <<"e","m","m","a">>) THEN <<Emma1>>
     ELSE IF includes(q, <<"d","u","n","e">>)
             \/ includes(q, <<"h","e","r","b","e","r","t">>)
          THEN <<Dune1, Dune2>>
     ELSE <<>>

\* How the provider treats a query: it answers with the catalogue's items,
\* it fails, or it answers with a number where a title string belongs
Behaviours == {"ok", "fails", "mistyped"}

\* data.items of a parsed body
payload(query, behaviour) ==
  IF behaviour = "mistyped"
  THEN [k \in 1..Len(Catalogue(query)) |->
          [Catalogue(query)[k] EXCEPT !.title = Num]]
  ELSE Catalogue(query)

\* What a request can come back with.  kind: the fetch rejects ("neterr"),
\* the status is not 2xx ("http"), the body is not JSON ("badjson"), or the
\* body parses ("ok")
responsesOf(query, behaviour) ==
  IF behaviour = "fails"
  THEN {[kind |-> k, items |-> <<>>] : k \in {"neterr", "http", "badjson"}}
  ELSE {[kind |-> "ok", items |-> payload(query, behaviour)]}

\* The search without its try/catch: a rejected fetch and a rejected
\* res.json() escape
searchUncaught(response) ==
  IF response.kind \in {"neterr", "badjson"}
  THEN [threw |-> TRUE, results |-> <<>>]
  ELSE IF response.kind = "http"
       THEN [threw |-> FALSE, results |-> <<>>]
       ELSE [threw |-> FALSE, results |-> mapItems(response.items)]

\* searchGoogleBooksForCluster: [threw, results] for a response.  A
\* rejected fetch and a rejected res.json() are caught and give [], a status
\* that is not ok gives []; the function never throws
searchGoogleBooksForCluster(response) ==
  IF response.kind \in {"neterr", "badjson"}
  THEN [threw |-> FALSE, results |-> <<>>]
  ELSE IF response.kind = "http"
       THEN [threw |-> FALSE, results |-> <<>>]
       ELSE [threw |-> FALSE, results |-> mapItems(response.items)]

----------------------------------------------------------------------------
(* matchBooksFromOCR as a state machine, one instance per invocation       *)

matcherVars == <<fragments, confidenceThreshold, provider, pc, clusters, i,
                 seenIds, allMatches, tasks, result, issued, call, ret>>

scanVars == <<mode, intervalRef, streamRef, isProcessingRef, detectedMapRef,
              timers, starting, requests, epoch, sent, reported>>

vars == <<matcherVars, scanVars>>

\* ScanPage as it is mounted: the useState and useRef initial values
InitScan ==
  /\ mode = "idle"
  /\ intervalRef = 0
  /\ streamRef = FALSE
  /\ isProcessingRef = FALSE
  /\ detectedMapRef = <<>>
  /\ timers = {}
  /\ starting = [camera |-> 0, session |-> 0]
  /\ requests = {}
  /\ epoch = 0
  /\ sent = 0
  /\ reported = <<>>

Null == <<>>

\* The promise of one callback of batch.map.  st: "search" (awaiting
\* searchGoogleBooksForCluster), "fulfilled" or "rejected"; value: Null or
\* <<entry>> once fulfilled
Task(st, cluster, value) == [st |-> st, cluster |-> cluster, value |-> value]

queryTextOf(clusterTexts) == trim(join(clusterTexts))

\* A batch that is one cluster too long
startBatchOfSix(cl, from) ==
  [k \in 1..Min2(BatchSize + 1, Len(cl) - from) |->
     IF Len(trim(join(cl[from + k]))) < 3
     THEN [st |-> "fulfilled", cluster |-> from + k, value |-> <<>>]
     ELSE [st |-> "search", cluster |-> from + k, value |-> <<>>]]

\* batch.map(async ...) up to the await of every callback: the callbacks of
\* clusters[i .. i+4] run in order and each one issues its search
startBatch(cl, from) ==
  [k \in 1..Min2(BatchSize, Len(cl) - from) |->
     IF Len(queryTextOf(cl[from + k])) < 3
     THEN Task("fulfilled", from + k, Null)
     ELSE Task("search", from + k, Null)]

\* The clusters of a batch whose search is in flight
searching(ts) ==
  {ts[k].cluster : k \in {n \in 1..Len(ts) : ts[n].st = "search"}}

RECURSIVE seqOfSet(_)
seqOfSet(S) ==
  IF S = {} THEN <<>>
  ELSE LET m == CHOOSE x \in S : \A y \in S : x <= y
       IN <<m>> \o seqOfSet(S \ {m})

\* The accumulated list returned as it is
unsorted(matches) == matches

\* allMatches.sort((a, b) => b.book.confidenceScore - a.book.confidenceScore)
sortByConfidence(matches) ==
  LET s == stableSort([k \in 1..Len(matches) |->
                         <<0 - matches[k].book.confidenceScore, matches[k]>>])
  IN [k \in 1..Len(s) |-> s[k][2]]

\* "for (const result of batchResults) if (result) allMatches.push(result)"
pushResults(matches, ts) ==
  LET kept == SelectSeq(ts, LAMBDA t : t.value # Null)
  IN matches \o [k \in 1..Len(kept) |-> kept[k].value[1]]

\* The callback from the settled search to its own settlement: [throws,
\* best].  An exception of the search is not caught by the callback, and
\* scoreMatch throws on the first result whose title is not a string
resolve(clusterTexts, found, threshold) ==
  IF found.threw THEN [throws |-> TRUE, best |-> Null]
  ELSE IF Len(found.results) = 0 THEN [throws |-> FALSE, best |-> Null]
  ELSE IF \E n \in 1..Len(found.results) : scoreThrows(found.results[n])
       THEN [throws |-> TRUE, best |-> Null]
       ELSE [throws |-> FALSE,
             best |-> bestMatchOf(clusterTexts, found.results, threshold)]

\* A best match kept whether or not its id has been seen
isFreshUnchecked(best, seen) ==
  best # <<>>

\* "bestMatch && !seenIds.has(bestMatch.googleBooksId)"
isFresh(best, seen) ==
  best # Null /\ best[1].googleBooksId \notin seen

\* resolve is pure; it is tabulated once for the clusters of the scenes
SceneClusters ==
  UNION {{clusterFragments(sc, DefaultProximityPx)[k] :
            k \in 1..Len(clusterFragments(sc, DefaultProximityPx))} :
         sc \in Scenes}

Resolved ==
  [cl \in SceneClusters, b \in Behaviours \ {"fails"}, t \in Thresholds |->
     resolve(cl,
             searchGoogleBooksForCluster(
               [kind |-> "ok",
                items |-> payload(slice(queryTextOf(cl), QueryCap), b)]),
             t)] @@ <<>>

resolved(clusterTexts, response, behaviour, threshold) ==
  IF response.kind = "ok" /\ clusterTexts \in SceneClusters
     /\ threshold \in Thresholds
  THEN Resolved[clusterTexts, behaviour, threshold]
  ELSE resolve(clusterTexts, searchGoogleBooksForCluster(response), threshold)

\* An emptiness test that never holds
noClustersNever(cl) == FALSE

\* "if (clusters.length === 0) return []"
noClusters(cl) == Len(cl) = 0

\* One set of seen ids for all invocations
seenByAll(r) == UNION {seenIds[x] : x \in Runs}

\* "const seenIds = new Set<string>()" inside the function: the set the
\* callbacks of invocation r consult
seenBy(r) == seenIds[r]

\* A loop step that makes consecutive batches overlap by one cluster
nextIndexOverlapping(from) == from + BatchSize - 1

\* "i += 5"
nextIndex(from) == from + BatchSize

faults == Cardinality({q \in DOMAIN provider : provider[q] # "ok"})

\* The behaviours the provider can show for a query
behavioursOf(query) ==
  IF query \in DOMAIN provider THEN {provider[query]}
  ELSE IF faults < MaxFaults THEN Behaviours ELSE {"ok"}

Init ==
  /\ fragments \in {f \in [Runs -> Scenes] :
                      /\ Len(f["a"]) + Len(f["b"]) <= MaxFragments
                      /\ Len(f["b"]) <= Len(f["a"])}
  /\ confidenceThreshold \in Thresholds
  /\ provider = <<>>
  /\ pc = [r \in Runs |-> "idle"]
  /\ clusters = [r \in Runs |-> <<>>]
  /\ i = [r \in Runs |-> 0]
  /\ seenIds = [r \in Runs |-> {}]
  /\ allMatches = [r \in Runs |-> <<>>]
  /\ tasks = [r \in Runs |-> <<>>]
  /\ result = [r \in Runs |-> <<>>]
  /\ issued = [r \in Runs |-> <<>>]
  /\ call = [fn |-> "matchBooksFromOCR"]
  /\ ret = [done |-> FALSE, value |-> <<>>]
  /\ InitScan

\* The call, up to the first "await Promise.all"
Invoke(r) ==
  /\ pc[r] = "idle"
  /\ LET cl == clusterFragments(fragments[r], DefaultProximityPx)
         ts == startBatch(cl, 0)
     IN /\ clusters' = [clusters EXCEPT ![r] = cl]
        /\ IF noClusters(cl)
           THEN /\ pc' = [pc EXCEPT ![r] = "returned"]
                /\ UNCHANGED <<tasks, issued>>
           ELSE /\ pc' = [pc EXCEPT ![r] = "await"]
                /\ tasks' = [tasks EXCEPT ![r] = ts]
                /\ issued' = [issued EXCEPT ![r] = seqOfSet(searching(ts))]
  /\ UNCHANGED scanVars
  /\ UNCHANGED <<fragments, confidenceThreshold, provider, i, seenIds,
                 allMatches, result, call, ret>>

\* "await searchGoogleBooksForCluster(queryText)" of callback k settles and
\* the callback runs to its end: no results give null; otherwise the
\* results are scored and the best match is checked against seenIds.  When
\* scoreMatch throws, the callback's promise, Promise.all and the call
\* reject; the other callbacks of the batch still run
SearchDone(r, k) ==
  /\ k \in 1..Len(tasks[r])
  /\ tasks[r][k].st = "search"
  /\ LET clusterTexts == clusters[r][tasks[r][k].cluster]
         query == slice(queryTextOf(clusterTexts), QueryCap)
     IN \E behaviour \in behavioursOf(query) :
        \E response \in responsesOf(query, behaviour) :
          LET res   == resolved(clusterTexts, response, behaviour,
                                confidenceThreshold)
              fresh == isFresh(res.best, seenBy(r))
          IN /\ provider' = (query :> behaviour) @@ provider
             /\ IF res.throws
                THEN /\ tasks' = [tasks EXCEPT ![r][k].st = "rejected"]
                     /\ pc' = [pc EXCEPT
                                 ![r] = IF @ = "await" THEN "thrown" ELSE @]
                     /\ UNCHANGED seenIds
                ELSE /\ tasks' = [tasks EXCEPT ![r][k] =
                           Task("fulfilled", @.cluster,
                                IF fresh
                                THEN << [book |-> res.best[1],
                                         ocrFragments |-> clusterTexts,
                                         cluster |-> @.cluster] >>
                                ELSE Null)]
                     /\ seenIds' = [seenIds EXCEPT ![r] =
                           IF fresh
                           THEN @ \cup {res.best[1].googleBooksId}
                           ELSE @]
                     /\ UNCHANGED pc
  /\ UNCHANGED scanVars
  /\ UNCHANGED <<fragments, confidenceThreshold, clusters, i, allMatches,
                 result, issued, call, ret>>

\* Promise.all fulfils: the batch's results are pushed in batch order, then
\* the loop either starts the next batch or the sorted list is returned
ResumeAfterBatch(r) ==
  /\ pc[r] = "await"
  /\ \A k \in 1..Len(tasks[r]) : tasks[r][k].st = "fulfilled"
  /\ LET matches == pushResults(allMatches[r], tasks[r])
         next    == nextIndex(i[r])
         ts      == startBatch(clusters[r], next)
     IN /\ allMatches' = [allMatches EXCEPT ![r] = matches]
        /\ i' = [i EXCEPT ![r] = next]
        /\ IF next < Len(clusters[r])
           THEN /\ tasks' = [tasks EXCEPT ![r] = ts]
                /\ issued' = [issued EXCEPT
                                ![r] = @ \o seqOfSet(searching(ts))]
                /\ UNCHANGED <<pc, result>>
           ELSE /\ pc' = [pc EXCEPT ![r] = "returned"]
                /\ result' = [result EXCEPT ![r] = sortByConfidence(matches)]
                /\ UNCHANGED <<tasks, issued>>
  /\ UNCHANGED scanVars
  /\ UNCHANGED <<fragments, confidenceThreshold, provider, clusters, seenIds,
                 call, ret>>

Next ==
  \/ \E r \in Runs : Invoke(r)
  \/ \E r \in Runs : \E k \in DOMAIN tasks[r] : SearchDone(r, k)
  \/ \E r \in Runs : ResumeAfterBatch(r)

Spec == Init /\ [][Next]_vars

----------------------------------------------------------------------------
(* The resolver's scoring loop and the clusterer, applied to drawn inputs  *)

\* maxResults of the search request
MaxResults == 3

\* Bound of the clusterer's inputs
MaxInput == 3

Idle ==
  /\ fragments = [r \in Runs |-> <<>>]
  /\ confidenceThreshold = DefaultThreshold
  /\ provider = <<>>
  /\ pc = [r \in Runs |-> "idle"]
  /\ clusters = [r \in Runs |-> <<>>]
  /\ i = [r \in Runs |-> 0]
  /\ seenIds = [r \in Runs |-> {}]
  /\ allMatches = [r \in Runs |-> <<>>]
  /\ tasks = [r \in Runs |-> <<>>]
  /\ result = [r \in Runs |-> <<>>]
  /\ issued = [r \in Runs |-> <<>>]
  /\ InitScan

\* Search results a provider can give: up to maxResults candidates
ResultLists ==
  LET pool == mapItems(<<Dune1, Dune2, Emma1>>)
  IN UNION {[1..n -> {pool[k] : k \in 1..Len(pool)}] : n \in 0..MaxResults}

\* Thresholds at, and one thousandth above, the score of every candidate
thresholdsAround(clusterTexts, results) ==
  {0, DefaultThreshold} \cup
  UNION {{scoreMatch(queryTextOf(clusterTexts), results[n].title.s,
                     results[n].authors) + d : d \in {0, 1}} :
         n \in 1..Len(results)}

InitResolve ==
  /\ Idle
  /\ \E cl \in SceneClusters : \E rs \in ResultLists :
     \E t \in thresholdsAround(cl, rs) :
       call = [fn |-> "resolve", clusterTexts |-> cl, results |-> rs,
               threshold |-> t]
  /\ ret = [done |-> FALSE, value |-> <<>>]

\* The callback's path from the search results to bestMatch
ApplyResolve ==
  /\ call.fn = "resolve"
  /\ ~ret.done
  /\ ret' = [done  |-> TRUE,
             value |-> resolve(call.clusterTexts,
                               [threw |-> FALSE, results |-> call.results],
                               call.threshold).best]
  /\ UNCHANGED scanVars
  /\ UNCHANGED <<fragments, confidenceThreshold, provider, pc, clusters, i,
                 seenIds, allMatches, tasks, result, issued, call>>

NextResolve == ApplyResolve

SpecResolve == InitResolve /\ [][NextResolve]_vars

\* Fragments on a small grid: centers 20, 100 and 181, two heights, two texts
GridFragments ==
  {Frag(t, x, y, 40) : t \in {<<"a","b">>, <<"c">>},
                       x \in {0, 80, 161}, y \in {0, 10}}

\* frags with the elements at positions p and q exchanged
exchanged(frags, p, q) ==
  [k \in 1..Len(frags) |->
     IF k = p THEN frags[q] ELSE IF k = q THEN frags[p] ELSE frags[k]]

InitCluster ==
  /\ Idle
  /\ \E n \in 0..MaxInput : \E frags \in [1..n -> GridFragments] :
     \E other \in {frags} \cup {exchanged(frags, p, q) : p, q \in 1..n} :
       call = [fn |-> "clusterFragments", frags |-> frags, other |-> other,
               proximityPx |-> DefaultProximityPx]
  /\ ret = [done |-> FALSE, value |-> <<>>]

\* clusterFragments on an input and on the same fragments in another order
ApplyCluster ==
  /\ call.fn = "clusterFragments"
  /\ ~ret.done
  /\ ret' = [done  |-> TRUE,
             value |-> [out   |-> clusterFragments(call.frags,
                                                   call.proximityPx),
                        other |-> clusterFragments(call.other,
                                                   call.proximityPx)]]
  /\ UNCHANGED scanVars
  /\ UNCHANGED <<fragments, confidenceThreshold, provider, pc, clusters, i,
                 seenIds, allMatches, tasks, result, issued, call>>

NextCluster == ApplyCluster

SpecCluster == InitCluster /\ [][NextCluster]_vars

\* Two fragments with centers 20, 20.5, 100, 100.5, 101 or 101.5, under
\* three values of proximityPx; the text " de " has two characters once
\* trimmed
PairFragments ==
  {Frag(t, x, 0, w) : t \in {<<"a","b","c">>, <<" ","d","e"," ">>},
                      x \in {0, 80, 81}, w \in {40, 41}}

InitPair ==
  /\ Idle
  /\ \E f1, f2 \in PairFragments : \E px \in {0, 1, DefaultProximityPx} :
       call = [fn |-> "clusterFragments", frags |-> <<f1, f2>>,
               other |-> <<f2, f1>>, proximityPx |-> px]
  /\ ret = [done |-> FALSE, value |-> <<>>]

SpecPair == InitPair /\ [][NextCluster]_vars

\* Fragments whose text names their place: centers 20, 100, 180 and 261 (a
\* run of steps of 80, then one of 81), two heights
ChainFragments ==
  {Frag(<<c[1], h[1], "k">>, c[2], h[2], 40) :
     c \in {<<"p", 0>>, <<"q", 80>>, <<"r", 160>>, <<"s", 241>>},
     h \in {<<"0", 0>>, <<"1", 10>>}}

InitChain ==
  /\ Idle
  /\ \E n \in 0..MaxInput : \E frags \in [1..n -> ChainFragments] :
     \E px \in {0, DefaultProximityPx} :
       call = [fn |-> "clusterFragments", frags |-> frags, other |-> frags,
               proximityPx |-> px]
  /\ ret = [done |-> FALSE, value |-> <<>>]

SpecChain == InitChain /\ [][NextCluster]_vars

\* Bound of the strings compared
MaxStr == 3

\* Strings over three characters
ShortStrings ==
  UNION {[1..n -> {"a", "b", "c"}] : n \in 0..MaxStr}

InitSimilarity ==
  /\ Idle
  /\ \E a, b \in ShortStrings :
       call = [fn |-> "normalizedSimilarity", a |-> a, b |-> b]
  /\ ret = [done |-> FALSE, value |-> <<>>]

\* normalizedSimilarity on two strings, in both argument orders
ApplySimilarity ==
  /\ call.fn = "normalizedSimilarity"
  /\ ~ret.done
  /\ ret' = [done  |-> TRUE,
             value |-> [ab |-> normalizedSimilarity(call.a, call.b),
                        ba |-> normalizedSimilarity(call.b, call.a)]]
  /\ UNCHANGED scanVars
  /\ UNCHANGED <<fragments, confidenceThreshold, provider, pc, clusters, i,
                 seenIds, allMatches, tasks, result, issued, call>>

NextSimilarity == ApplySimilarity

SpecSimilarity == InitSimilarity /\ [][NextSimilarity]_vars

\* Cluster texts of normalized length 0, 3, 4, 5, 7, 8, 10, 16 and 18
ScoreTexts ==
  {
    <<"d","o","g">>,
    <<"D","u","n","e">>,
    <<"E","m","m","a","?","!">>,
    <<"d","u","n","e","s"," ","x">>,
    <<"d","u","n","e"," ","t","w","o">>,
    <<"T","h","e"," ","G","r","e","a","t"," ","G","a","t","s","b","y">>,
    <<"t","h","e"," ","j","o","y"," ","l","u">>,
    <<"j","a","x","e","s">>,
    <<"h","e","r","b","e","r","t">>,
    <<"D","u","n","e"," ","F","r","a","n","k"," ","H","e","r","b","e","r","t">>,
    <<"!","!","!">> }

ScoreTitles ==
  {
    <<"d","o","g">>,
    <<"D","u","n","e">>,
    <<"d","u","n","e","s"," ","x">>,
    <<"d","u","n","e"," ","t","w","o">>,
    <<"T","h","e"," ","G","r","e","a","t"," ","G","a","t","s","b","y">>,
    <<"D","u","n","e"," ","F","r","a","n","k"," ","H","e","r","b","e","r","t">>,
    <<"E","m","m","a">> }

ScoreAuthors ==
  {
    <<>>,
    <<<<"F","r","a","n","k"," ","H","e","r","b","e","r","t">>>>,
    <<<<"F","r","a","n","k">>>>,
    <<<<"J","o","y">>>>,
    <<<<"J","a","m","e","s">>>>,
    <<<<"H","e","r","b","a","r","t">>>>,
    <<<<"F","."," ","S","c","o","t","t"," ","F","i","t","z","g","e","r","a","l","d">>>>,
    <<<<"F","r","a","n","k"," ","H","e","r","b","e","r","t">>,
      <<"B","r","i","a","n"," ","H","e","r","b","e","r","t">>>>,
    <<<<"A","l">>, <<"J","a","n","e"," ","A","u","s","t","e","n">>>> }

InitScore ==
  /\ Idle
  /\ \E t \in ScoreTexts : \E ti \in ScoreTitles : \E au \in ScoreAuthors :
       call = [fn |-> "scoreMatch", clusterText |-> t, bookTitle |-> ti,
               bookAuthors |-> au]
  /\ ret = [done |-> FALSE, value |-> <<>>]

\* scoreMatch on its arguments, and on the same texts with no authors
ApplyScore ==
  /\ call.fn = "scoreMatch"
  /\ ~ret.done
  /\ ret' = [done  |-> TRUE,
             value |-> [score |-> scoreMatch(call.clusterText, call.bookTitle,
                                             call.bookAuthors),
                        bare  |-> scoreMatch(call.clusterText, call.bookTitle,
                                             <<>>)]]
  /\ UNCHANGED scanVars
  /\ UNCHANGED <<fragments, confidenceThreshold, provider, pc, clusters, i,
                 seenIds, allMatches, tasks, result, issued, call>>

NextScore == ApplyScore

SpecScore == InitScore /\ [][NextScore]_vars

\* Items as a provider can send them: the title present, empty or missing;
\* the authors present, an empty array or missing
RawItems ==
  {[id |-> "v" \o tn \o an, title |-> t, authors |-> a, hasAuthors |-> h] :
     <<tn, t>> \in {<<"1", Str(<<"D","u","n","e">>)>>,
                    <<"2", Str(<<"U","n","k","n","o","w","n">>)>>,
                    <<"3", Str(<<>>)>>,
                    <<"4", Absent>>},
     <<an, a, h>> \in {<<"a", << <<"F","r","a","n","k"," ","H","e","r","b","e","r","t">> >>, TRUE>>,
                       <<"b", <<>>, TRUE>>,
                       <<"c", <<>>, FALSE>>}}

\* A fragment of 104 characters: "Dune" followed by a run of "x"
LongText ==
  <<"D","u","n","e">> \o [k \in 1..QueryCap |-> "x"]

SearchClusters ==
  { << LongText >>,
    << <<"D","u","n","e">> >>,
    << <<"U","n","k","n","o","w","n">> >>,
    << <<"T","h","e">>, <<"A","u","t","h","o","r">> >>,
    << <<"U","n","t","i","t","l","e","d">> >>,
    << <<"D","u","n","e">>, <<"F","r","a","n","k">>, <<"H","e","r","b","e","r","t">> >> }

InitSearch ==
  /\ Idle
  /\ \E cl \in SearchClusters : \E n \in 0..2 : \E items \in [1..n -> RawItems] :
     \E t \in Thresholds :
       call = [fn |-> "search", clusterTexts |-> cl, items |-> items,
               threshold |-> t]
  /\ ret = [done |-> FALSE, value |-> <<>>]

\* One callback of batch.map whose search is answered with the items of
\* the call: the mapped results and the callback's bestMatch
ApplySearch ==
  /\ call.fn = "search"
  /\ ~ret.done
  /\ LET found == searchGoogleBooksForCluster(
                    [kind |-> "ok", items |-> call.items])
     IN ret' = [done  |-> TRUE,
                value |-> [query   |-> slice(queryTextOf(call.clusterTexts),
                                             QueryCap),
                           results |-> found.results,
                           best    |-> resolve(call.clusterTexts, found,
                                               call.threshold).best]]
  /\ UNCHANGED scanVars
  /\ UNCHANGED <<fragments, confidenceThreshold, provider, pc, clusters, i,
                 seenIds, allMatches, tasks, result, issued, call>>

NextSearch == ApplySearch

SpecSearch == InitSearch /\ [][NextSearch]_vars

----------------------------------------------------------------------------
(* ScanPage: the capture interval, the frame requests and the detected map *)

\* Bounds of the scan page: calls of startScanning, frame requests sent,
\* matches of one response
MaxStarts == 3

MaxFrames == 3

MaxMatches == 2

\* The matches a response of POST /api/scan/frame can carry
FrameMatches ==
  {[googleBooksId |-> b, confidenceScore |-> c] :
     b \in {"dune1", "emma1"}, c \in {560, 900}}

\* What a frame request can come back with: apiRequest or res.json()
\* rejects, or the body parses and has data.matches
FrameResponses ==
  {[ok |-> FALSE, matches |-> <<>>]}
    \cup {[ok |-> TRUE, matches |-> m] :
            m \in UNION {[1..n -> FrameMatches] : n \in 0..MaxMatches}}

\* A merge that stores every match it is given
mergeLatest(map, match, sentIn) ==
  (match.googleBooksId :>
     [confidenceScore |-> match.confidenceScore, sentIn |-> sentIn]) @@ map

\* "if (!existing || match.confidenceScore > existing.confidenceScore)
\*    detectedMapRef.current.set(match.googleBooksId, match)"; sentIn is the
\* call of startScanning under which the request of the match was sent
merge(map, match, sentIn) ==
  IF \/ match.googleBooksId \notin DOMAIN map
     \/ match.confidenceScore > map[match.googleBooksId].confidenceScore
  THEN (match.googleBooksId :>
          [confidenceScore |-> match.confidenceScore, sentIn |-> sentIn])
         @@ map
  ELSE map

\* "for (const match of data.matches)" from matches[n] on
RECURSIVE mergeAll(_, _, _, _)
mergeAll(map, matches, n, sentIn) ==
  IF n > Len(matches) THEN map
  ELSE mergeAll(merge(map, matches[n], sentIn), matches, n + 1, sentIn)

\* The highest confidence per id among rep and the matches of a response
reportedWith(rep, matches) ==
  LET ids == DOMAIN rep
               \cup {matches[n].googleBooksId : n \in 1..Len(matches)}
  IN [b \in ids |->
        LET cs == {matches[n].confidenceScore :
                     n \in {k \in 1..Len(matches) :
                              matches[k].googleBooksId = b}}
                    \cup (IF b \in DOMAIN rep THEN {rep[b]} ELSE {})
        IN CHOOSE c \in cs : \A d \in cs : d <= c]

\* A capture test that lets every tick through
mayCaptureAlways(processing) == TRUE

\* "if (isProcessingRef.current) return"
mayCapture(processing) == ~processing

\* The page shows a video and a canvas element (videoRef.current and
\* canvasRef.current are set) on the idle and on the scanning screen
hasVideo == mode \in {"idle", "scanning"}

\* clearInterval_: the timer of intervalRef is disarmed
timersCleared == IF intervalRef # 0 THEN timers \ {intervalRef} ELSE timers

\* startScanning up to "await navigator.mediaDevices.getUserMedia": the
\* map is cleared; the buttons calling it are on the idle screen
StartScanning ==
  /\ mode = "idle"
  /\ epoch < MaxStarts
  /\ detectedMapRef' = <<>>
  /\ reported' = <<>>
  /\ epoch' = epoch + 1
  /\ starting' = [starting EXCEPT !.camera = @ + 1]
  /\ UNCHANGED <<mode, intervalRef, streamRef, isProcessingRef, timers,
                 requests, sent>>
  /\ UNCHANGED matcherVars

\* getUserMedia resolves: the stream is kept, the mode is set to scanning,
\* and the call stops at "await apiRequest('POST', '/api/scan/sessions')"
CameraGranted ==
  /\ starting.camera > 0
  /\ streamRef' = TRUE
  /\ mode' = "scanning"
  /\ starting' = [camera |-> starting.camera - 1,
                  session |-> starting.session + 1]
  /\ UNCHANGED <<intervalRef, isProcessingRef, detectedMapRef, timers,
                 requests, epoch, sent, reported>>
  /\ UNCHANGED matcherVars

\* getUserMedia rejects: the catch sets cameraError and the call ends
CameraDenied ==
  /\ starting.camera > 0
  /\ starting' = [starting EXCEPT !.camera = @ - 1]
  /\ UNCHANGED <<mode, intervalRef, streamRef, isProcessingRef,
                 detectedMapRef, timers, requests, epoch, sent, reported>>
  /\ UNCHANGED matcherVars

\* The session request settles, with a session or with an error that the
\* inner catch drops: "intervalRef.current = setInterval(processFrame,
\* 2000)" arms a new timer
SessionSettled ==
  /\ starting.session > 0
  /\ starting' = [starting EXCEPT !.session = @ - 1]
  /\ LET id == CHOOSE n \in 1..MaxStarts : n \notin timers \cup {intervalRef}
     IN /\ timers' = timers \cup {id}
        /\ intervalRef' = id
  /\ UNCHANGED <<mode, streamRef, isProcessingRef, detectedMapRef, requests,
                 epoch, sent, reported>>
  /\ UNCHANGED matcherVars

\* A tick of an armed timer runs processFrame, and the frame passes the
\* readyState and brightness tests: the flag is raised and the request
\* sent.  A tick that returns early changes nothing
Tick(t) ==
  /\ t \in timers
  /\ mayCapture(isProcessingRef)
  /\ hasVideo
  /\ sent < MaxFrames
  /\ isProcessingRef' = TRUE
  /\ requests' = requests \cup {[n |-> sent + 1, sentIn |-> epoch]}
  /\ sent' = sent + 1
  /\ UNCHANGED <<mode, intervalRef, streamRef, detectedMapRef, timers,
                 starting, epoch, reported>>
  /\ UNCHANGED matcherVars

\* The request settles: the matches of a parsed body are merged into the
\* map, an error is logged; the finally block lowers the flag
FrameSettled(req, response) ==
  /\ req \in requests
  /\ requests' = requests \ {req}
  /\ isProcessingRef' = FALSE
  /\ IF response.ok
     THEN /\ detectedMapRef' =
               mergeAll(detectedMapRef, response.matches, 1, req.sentIn)
          /\ reported' = reportedWith(reported, response.matches)
     ELSE UNCHANGED <<detectedMapRef, reported>>
  /\ UNCHANGED <<mode, intervalRef, streamRef, timers, starting, epoch, sent>>
  /\ UNCHANGED matcherVars

\* finishScanning up to its first await: clearInterval_, stopMediaStream,
\* setMode("results"); the Done button is on the scanning screen
FinishScanning ==
  /\ mode = "scanning"
  /\ timers' = timersCleared
  /\ intervalRef' = 0
  /\ streamRef' = FALSE
  /\ mode' = "results"
  /\ UNCHANGED <<isProcessingRef, detectedMapRef, starting, requests, epoch,
                 sent, reported>>
  /\ UNCHANGED matcherVars

\* cancelScanning up to its first await: clearInterval_, stopMediaStream,
\* setMode("idle"); the cancel button is on the scanning screen
CancelScanning ==
  /\ mode = "scanning"
  /\ timers' = timersCleared
  /\ intervalRef' = 0
  /\ streamRef' = FALSE
  /\ mode' = "idle"
  /\ UNCHANGED <<isProcessingRef, detectedMapRef, starting, requests, epoch,
                 sent, reported>>
  /\ UNCHANGED matcherVars

\* "Scan again" on the results screen: setMode("idle")
ScanAgain ==
  /\ mode = "results"
  /\ mode' = "idle"
  /\ UNCHANGED <<intervalRef, streamRef, isProcessingRef, detectedMapRef,
                 timers, starting, requests, epoch, sent, reported>>
  /\ UNCHANGED matcherVars

InitScanPage ==
  /\ Idle
  /\ call = [fn |-> "ScanPage"]
  /\ ret = [done |-> FALSE, value |-> <<>>]

NextScan ==
  \/ StartScanning
  \/ CameraGranted
  \/ CameraDenied
  \/ SessionSettled
  \/ \E t \in timers : Tick(t)
  \/ \E req \in requests : \E response \in FrameResponses :
       FrameSettled(req, response)
  \/ FinishScanning
  \/ CancelScanning
  \/ ScanAgain

SpecScan == InitScanPage /\ [][NextScan]_vars

----------------------------------------------------------------------------
(* Properties of matchBooksFromOCR                                         *)

\* The search request of cluster j of invocation r
queryOf(r, j) == slice(queryTextOf(clusters[r][j]), QueryCap)

\* The bestMatch the callback of cluster j computes from the provider's
\* answer; Null when the cluster is not searched or the search gave nothing
bestOf(r, j) ==
  IF \/ Len(queryTextOf(clusters[r][j])) < 3
     \/ queryOf(r, j) \notin DOMAIN provider
  THEN Null
  ELSE IF provider[queryOf(r, j)] # "ok" THEN Null
  ELSE Resolved[clusters[r][j], "ok", confidenceThreshold].best

batchOf(j) == (j - 1) \div BatchSize

idsOf(entries) ==
  [k \in 1..Len(entries) |-> entries[k].book.googleBooksId]

scoresOf(entries) ==
  [k \in 1..Len(entries) |-> entries[k].book.confidenceScore]

\* C1: the list matchBooksFromOCR returns never holds two entries with the
\* same googleBooksId, however many clusters resolve to the same volume
C1_UniqueIds ==
  \A r \in Runs :
    pc[r] = "returned" =>
      \A m, n \in 1..Len(result[r]) :
        m # n => idsOf(result[r])[m] # idsOf(result[r])[n]

\* Two clusters of a returned invocation have the same volume as best match
C1_Witness ==
  \E r \in Runs :
    /\ pc[r] = "returned"
    /\ Len(result[r]) >= 1
    /\ \E j1, j2 \in 1..Len(clusters[r]) :
         /\ j1 < j2
         /\ bestOf(r, j1) # Null
         /\ bestOf(r, j2) # Null
         /\ bestOf(r, j1)[1].googleBooksId = bestOf(r, j2)[1].googleBooksId

\* C2: when several clusters have the same volume as best match, the entry
\* returned for the volume comes from the first of them in cluster order,
\* whatever order the searches of a batch complete in
C2_FirstInClusterOrderWins ==
  \A r \in Runs :
    pc[r] = "returned" =>
      \A m \in 1..Len(result[r]) :
        \A j \in 1..Len(clusters[r]) :
          (/\ bestOf(r, j) # Null
           /\ bestOf(r, j)[1].googleBooksId = idsOf(result[r])[m])
            => result[r][m].cluster <= j

\* C3: two invocations on the same fragments, answered by the same provider
\* responses, return the same list whatever the timing of the responses
C3_SameInputSameOutput ==
  (/\ pc["a"] = "returned"
   /\ pc["b"] = "returned"
   /\ fragments["a"] = fragments["b"])
    => result["a"] = result["b"]

\* C4: every entry of the returned list has a confidenceScore of at least
\* the confidenceThreshold of the call
C4_ScoresReachThreshold ==
  \A r \in Runs :
    pc[r] = "returned" =>
      \A m \in 1..Len(result[r]) :
        scoresOf(result[r])[m] >= confidenceThreshold

\* A returned invocation with an entry and with a cluster whose candidates
\* match at threshold 0 but not at the threshold of the call
C4_Witness ==
  \E r \in Runs :
    /\ pc[r] = "returned"
    /\ Len(result[r]) >= 1
    /\ confidenceThreshold > 0
    /\ \E j \in 1..Len(clusters[r]) :
         /\ queryOf(r, j) \in DOMAIN provider
         /\ provider[queryOf(r, j)] = "ok"
         /\ bestOf(r, j) = Null
         /\ Resolved[clusters[r][j], "ok", 0].best # Null

\* C5: at most five searches are in flight, the searches in flight all
\* belong to the batch issued last, and allMatches holds no entry of a batch
\* that still has a search in flight
C5_BatchesOfFive ==
  \A r \in Runs :
    /\ Cardinality(searching(tasks[r])) <= 5
    /\ \A j \in searching(tasks[r]) :
         /\ Len(issued[r]) > 0
         /\ batchOf(j) = batchOf(issued[r][Len(issued[r])])
    /\ \A m \in 1..Len(allMatches[r]) :
         \A j \in searching(tasks[r]) :
           batchOf(allMatches[r][m].cluster) < batchOf(j)

\* The second batch has a search in flight, after a first batch of five
\* that left entries in allMatches
C5_Witness ==
  \E r \in Runs :
    /\ i[r] = BatchSize
    /\ searching(tasks[r]) # {}
    /\ Len(allMatches[r]) > 0
    /\ Len(issued[r]) > BatchSize

C7_SortedDescending ==
  \A r \in Runs :
    pc[r] = "returned" =>
      \A m, n \in 1..Len(result[r]) :
        m < n => scoresOf(result[r])[m] >= scoresOf(result[r])[n]

\* The returned list differs from the order in which entries accumulated
C7_Witness ==
  \E r \in Runs :
    /\ pc[r] = "returned"
    /\ Len(result[r]) >= 2
    /\ result[r] # allMatches[r]

\* The request text of the three stacked fragments of DuneScene
DuneQuery == <<"D","u","n","e"," ","F","r","a","n","k"," ",
               "H","e","r","b","e","r","t">>

\* The call on DuneScene has returned, answered with the candidate Dune by
\* Frank Herbert
duneReturned(r) ==
  /\ pc[r] = "returned"
  /\ fragments[r] = DuneScene
  /\ DuneQuery \in DOMAIN provider
  /\ provider[DuneQuery] = "ok"

\* C8: for the fragments Frank (y 120), Dune (y 40) and Herbert (y 200) on
\* one spine and the single candidate Dune by Frank Herbert, the call
\* returns exactly one entry, for that volume, read top to bottom, with
\* confidenceScore 0.456
C8_DuneEndToEnd ==
  \A r \in Runs :
    duneReturned(r) =>
      /\ Len(result[r]) = 1
      /\ result[r][1].book.googleBooksId = "dune1"
      /\ result[r][1].ocrFragments =
           << <<"D","u","n","e">>, <<"F","r","a","n","k">>,
              <<"H","e","r","b","e","r","t">> >>
      /\ result[r][1].book.confidenceScore = 456

C8_Witness ==
  \E r \in Runs : duneReturned(r) /\ Len(result[r]) = 1

\* C8 as stated: the entry's confidenceScore is about 1.0
C8_AsStated ==
  \A r \in Runs :
    duneReturned(r) =>
      /\ Len(result[r]) = 1
      /\ result[r][1].book.googleBooksId = "dune1"
      /\ result[r][1].book.confidenceScore >= 950

\* The score of the only candidate of a resolved call
onlyScore ==
  scoreMatch(queryTextOf(call.clusterTexts), call.results[1].title.s,
             call.results[1].authors)

singleCandidate ==
  call.fn = "resolve" /\ ret.done /\ Len(call.results) = 1

\* C9: for a confidenceThreshold above 0, a cluster whose single candidate
\* scores exactly the threshold yields a match, and one whose single
\* candidate scores 0.001 less yields none
C9_ThresholdGate ==
  (singleCandidate /\ call.threshold > 0) =>
    /\ onlyScore = call.threshold =>
         /\ ret.value # Null
         /\ ret.value[1].googleBooksId = call.results[1].googleBooksId
         /\ ret.value[1].confidenceScore = call.threshold
    /\ onlyScore = call.threshold - 1 => ret.value = Null

C9_Witness ==
  /\ singleCandidate
  /\ call.threshold > 0
  /\ onlyScore = call.threshold
  /\ ret.value # Null

\* C9 as stated: the same for any confidenceThreshold
C9_AsStated ==
  singleCandidate =>
    /\ onlyScore = call.threshold => ret.value # Null
    /\ onlyScore = call.threshold - 1 => ret.value = Null

\* C10: clusterFragments returns the same clusters, in the same order and
\* with the same order inside each, for every order of the same fragments
C10_OrderOfInputIrrelevant ==
  (call.fn = "clusterFragments" /\ ret.done) =>
    ret.value.out = ret.value.other

\* The input of a finished call of clusterFragments on two fragments
pairClustered ==
  call.fn = "clusterFragments" /\ ret.done /\ Len(call.frags) = 2

\* Twice the distance of the centers of the two fragments
pairDistance2 == Abs(center2(call.frags[1]) - center2(call.frags[2]))

\* C11: two fragments whose centers differ by exactly proximityPx come out
\* in one cluster; two whose centers differ by more, by however little,
\* come out in separate clusters (one per fragment that passes the length
\* filter)
C11_ProximityBoundary ==
  pairClustered =>
    /\ pairDistance2 = 2 * call.proximityPx =>
          /\ Len(ret.value.out) = 1
          /\ Len(ret.value.out[1]) = 2
    /\ pairDistance2 > 2 * call.proximityPx =>
          /\ \A k \in 1..Len(ret.value.out) : Len(ret.value.out[k]) = 1
          /\ Len(ret.value.out) =
               Cardinality({k \in 1..2 : Len(trim(call.frags[k].text)) >= 3})

\* Centers 20 and 100 at proximityPx 80, grouped
C11_Witness ==
  /\ pairClustered
  /\ call.proximityPx = DefaultProximityPx
  /\ pairDistance2 = 2 * DefaultProximityPx
  /\ Len(ret.value.out) = 1

\* The groups of a finished call of clusterFragments, before the filter
groupsOfCall == groupTexts(call.frags, call.proximityPx)

\* The length of the space-joined, trimmed text of a group
joinedLength(texts) == Len(trim(join(texts)))

\* C12: every cluster returned has a joined, trimmed text of at least 3
\* characters; the clusters returned are the groups with 3 characters or
\* more, so a group of 2 or fewer is dropped and one of exactly 3 is kept
C12_LengthFilter ==
  (call.fn = "clusterFragments" /\ ret.done) =>
    /\ \A k \in 1..Len(ret.value.out) : joinedLength(ret.value.out[k]) >= 3
    /\ \A g \in 1..Len(groupsOfCall) :
         (\E k \in 1..Len(ret.value.out) : ret.value.out[k] = groupsOfCall[g])
           <=> joinedLength(groupsOfCall[g]) >= 3
    /\ Len(ret.value.out) =
         Cardinality({g \in 1..Len(groupsOfCall) :
                        joinedLength(groupsOfCall[g]) >= 3})

\* A group of exactly 3 characters is kept next to a dropped group of 2
C12_Witness ==
  /\ call.fn = "clusterFragments"
  /\ ret.done
  /\ Len(groupsOfCall) = 2
  /\ Len(ret.value.out) = 1
  /\ joinedLength(ret.value.out[1]) = 3
  /\ \E g \in 1..2 : joinedLength(groupsOfCall[g]) = 2

similarityDone == call.fn = "normalizedSimilarity" /\ ret.done

charsOf(str) == {str[k] : k \in 1..Len(str)}

\* C13: normalizedSimilarity(a, b) = normalizedSimilarity(b, a), the value
\* lies in [0, 1], it is 1 when both strings are empty or a = b, and 0 when
\* the strings, not both empty, have no character in common
C13_SimilaritySymmetricBounded ==
  similarityDone =>
    /\ ret.value.ab = ret.value.ba
    /\ ret.value.ab.den > 0
    /\ 0 <= ret.value.ab.num
    /\ ret.value.ab.num <= ret.value.ab.den
    /\ call.a = call.b => ret.value.ab.num = ret.value.ab.den
    /\ (/\ Len(call.a) + Len(call.b) > 0
        /\ charsOf(call.a) \cap charsOf(call.b) = {})
         => ret.value.ab.num = 0

\* C13 as stated: symmetric, within [0, 1], 1 for equal strings, and 0
\* when the strings have equal length and differ at every position
C13_AsStated ==
  similarityDone =>
    /\ ret.value.ab = ret.value.ba
    /\ 0 <= ret.value.ab.num
    /\ ret.value.ab.num <= ret.value.ab.den
    /\ call.a = call.b => ret.value.ab.num = ret.value.ab.den
    /\ (/\ Len(call.a) = Len(call.b)
        /\ Len(call.a) > 0
        /\ \A k \in 1..Len(call.a) : call.a[k] # call.b[k])
         => ret.value.ab.num = 0

\* Two different strings of different lengths with a similarity strictly
\* between 0 and 1
C13_Witness ==
  /\ similarityDone
  /\ Len(call.a) < Len(call.b)
  /\ 0 < ret.value.ab.num
  /\ ret.value.ab.num < ret.value.ab.den

scoreDone == call.fn = "scoreMatch" /\ ret.done

normClusterOfCall == normalize(call.clusterText)

titleScoreOfCall ==
  normalizedSimilarity(normClusterOfCall, normalize(call.bookTitle))

\* The lowercased, whitespace-separated parts of all authors of the call
authorParts ==
  UNION {{split(toLowerCase(call.bookAuthors[k]))[p] :
            p \in 1..Len(split(toLowerCase(call.bookAuthors[k])))} :
         k \in 1..Len(call.bookAuthors)}

\* Some author part of at least 3 characters passes "> 0.3" and then
\* "substring or > 0.8", the comparisons being those of the doubles
creditDue ==
  \E part \in authorParts :
    /\ Len(part) >= 3
    /\ above03(normalizedSimilarity(normClusterOfCall, part))
    /\ \/ includes(normClusterOfCall, part)
       \/ above08(normalizedSimilarity(normClusterOfCall, part))

\* C14: scoreMatch is 0.7 when the normalized cluster text equals the
\* normalized title, has 8 characters or more, and no author is credited
C14_ExactTitleNoAuthor ==
  (/\ scoreDone
   /\ normClusterOfCall = normalize(call.bookTitle)
   /\ Len(normClusterOfCall) >= 8
   /\ ~creditDue)
    => ret.value.score = 700

\* scoreMatch("The Great Gatsby", "The Great Gatsby", ["F. Scott
\* Fitzgerald"]): equal normalized texts of 16 characters, no credit
C14_Witness ==
  /\ scoreDone
  /\ normClusterOfCall = normalize(call.bookTitle)
  /\ Len(normClusterOfCall) = 16
  /\ Len(call.bookAuthors) = 1
  /\ ~creditDue
  /\ ret.value.score = 700

\* The multiplier of the weighted score, in thousandths, by the length of
\* the normalized cluster text
multiplierOfCall ==
  IF Len(normClusterOfCall) <= 3 THEN 500
  ELSE IF Len(normClusterOfCall) <= 7 THEN 800
  ELSE 1000

\* (0.7 x titleScore + 0.3 x authorScore) x 10 x titleScore.den
weightedOfCall ==
  7 * titleScoreOfCall.num
    + 3 * (IF creditDue THEN 1 ELSE 0) * titleScoreOfCall.den

\* C15: the score is the weighted score 0.7 x titleScore + 0.3 x
\* authorScore times 0.5 below 4 characters of normalized cluster text,
\* times 0.8 from 4 to 7, times 1 from 8 on, rounded to thousandths; an
\* identical title of 3 characters without author credit scores 0.35
C15_LengthPenalty ==
  scoreDone =>
    /\ 2 * Abs(ret.value.score * 10 * titleScoreOfCall.den
                 - weightedOfCall * multiplierOfCall)
         <= 10 * titleScoreOfCall.den
    /\ (/\ normClusterOfCall = normalize(call.bookTitle)
        /\ Len(normClusterOfCall) = 3
        /\ ~creditDue)
         => ret.value.score = 350

\* scoreMatch("dog", "dog", []) = 0.35
C15_Witness ==
  /\ scoreDone
  /\ call.clusterText = <<"d","o","g">>
  /\ call.bookTitle = <<"d","o","g">>
  /\ call.bookAuthors = <<>>
  /\ ret.value.score = 350

yieldsNoCluster(r) ==
  \A g \in 1..Len(groupTexts(fragments[r], DefaultProximityPx)) :
    joinedLength(groupTexts(fragments[r], DefaultProximityPx)[g]) < 3

\* C16: when the clusterer yields no cluster, the call returns the empty
\* list at once: it never awaits, issues no search and does not throw
C16_NoClustersNoSearch ==
  \A r \in Runs :
    (pc[r] # "idle" /\ yieldsNoCluster(r)) =>
      /\ pc[r] = "returned"
      /\ result[r] = <<>>
      /\ issued[r] = <<>>
      /\ tasks[r] = <<>>

\* The call on a single fragment "It" has returned
C16_Witness ==
  \E r \in Runs :
    /\ fragments[r] = NoiseScene
    /\ pc[r] = "returned"
    /\ result[r] = <<>>

\* The ids of the best matches of the clusters of invocation r
bestIds(r) ==
  {bestOf(r, j)[1].googleBooksId :
     j \in {n \in 1..Len(clusters[r]) : bestOf(r, n) # Null}}

\* C17: the seen ids belong to one invocation.  The ids an invocation has
\* seen are ids of best matches of its own clusters, one kept entry each,
\* and what it returns is what it returns alone: one entry for every
\* volume that is the best match of one of its clusters, whatever another
\* invocation has seen or returned
C17_SeenIdsPerInvocation ==
  \A r \in Runs :
    /\ seenIds[r] \subseteq bestIds(r)
    /\ pc[r] = "returned" =>
         /\ {idsOf(result[r])[m] : m \in 1..Len(result[r])} = bestIds(r)
         /\ \A m \in 1..Len(result[r]) :
              bestOf(r, result[r][m].cluster) = <<result[r][m].book>>

\* Invocation b has returned a volume that invocation a, still awaiting a
\* batch, has already seen
C17_Witness ==
  /\ pc["a"] = "await"
  /\ pc["b"] = "returned"
  /\ \E m \in 1..Len(result["b"]) : idsOf(result["b"])[m] \in seenIds["a"]

\* C18: every cluster is searched exactly once, also when its search
\* fails: no cluster is searched twice, and a returned call has searched
\* each of its clusters
C18_OneSearchPerCluster ==
  \A r \in Runs :
    /\ \A m, n \in 1..Len(issued[r]) : m # n => issued[r][m] # issued[r][n]
    /\ \A m \in 1..Len(issued[r]) : issued[r][m] \in 1..Len(clusters[r])
    /\ (pc[r] = "returned" \/ (pc[r] = "await" /\ i[r] > 0)) =>
         \A j \in 1..Min2(Len(clusters[r]), i[r] + BatchSize) :
           \E m \in 1..Len(issued[r]) : issued[r][m] = j

\* A call over two batches has returned although one of its searches
\* failed
C18_Witness ==
  \E r \in Runs :
    /\ pc[r] = "returned"
    /\ Len(issued[r]) > BatchSize
    /\ Len(issued[r]) = Len(clusters[r])
    /\ \E j \in 1..Len(clusters[r]) : provider[queryOf(r, j)] = "fails"

\* The scores of the candidates of a resolved call
scoresOfCall ==
  {scoreMatch(queryTextOf(call.clusterTexts), call.results[n].title.s,
              call.results[n].authors) : n \in 1..Len(call.results)}

maxScoreOfCall == CHOOSE s \in scoresOfCall : \A t \in scoresOfCall : t <= s

resolveDone == call.fn = "resolve" /\ ret.done

\* C19: the match of a cluster has the highest score of its candidates
\* when that score is at least the threshold and above 0, wherever the
\* candidate stands in the results; otherwise there is no match
C19_MaxScoreWins ==
  resolveDone =>
    IF /\ call.results # <<>>
       /\ maxScoreOfCall >= call.threshold
       /\ maxScoreOfCall > 0
    THEN /\ ret.value # Null
         /\ ret.value[1].confidenceScore = maxScoreOfCall
         /\ \E n \in 1..Len(call.results) :
              call.results[n].googleBooksId = ret.value[1].googleBooksId
    ELSE ret.value = Null

\* The best of three candidates is the last one returned
C19_Witness ==
  /\ resolveDone
  /\ Len(call.results) = 3
  /\ ret.value # Null
  /\ ret.value[1].googleBooksId = call.results[3].googleBooksId
  /\ ret.value[1].googleBooksId # call.results[1].googleBooksId
  /\ ret.value[1].googleBooksId # call.results[2].googleBooksId

\* C19 as stated: a match with the highest score whenever that score is
\* at least the threshold
C19_AsStated ==
  (resolveDone /\ call.results # <<>>
     /\ maxScoreOfCall >= call.threshold)
    => /\ ret.value # Null
       /\ ret.value[1].confidenceScore = maxScoreOfCall

searchDone == call.fn = "search" /\ ret.done

\* The score the callback computes for result n of a finished search
scoreOfResult(n) ==
  scoreMatch(queryTextOf(call.clusterTexts), ret.value.results[n].title.s,
             ret.value.results[n].authors)

\* C21: a candidate that arrives without authors gets no author credit,
\* whatever the cluster text is: its score is the score of its title with
\* an empty authors list; a candidate without a title is scored against
\* the fallback title, and every title and authors list scored is defined
C21_MissingFieldsDefaulted ==
  searchDone =>
    \A n \in 1..Len(call.items) :
      /\ ret.value.results[n].title.t = "str"
      /\ call.items[n].title = Absent =>
           ret.value.results[n].title.s = Untitled
      /\ ~call.items[n].hasAuthors =>
           scoreOfResult(n) =
             scoreMatch(queryTextOf(call.clusterTexts),
                        ret.value.results[n].title.s, <<>>)

\* The call's cluster has a joined, trimmed text above 100 characters and
\* a single candidate
longQueryDone ==
  /\ searchDone
  /\ Len(queryTextOf(call.clusterTexts)) > QueryCap
  /\ Len(call.items) = 1

\* C22: for a joined text above 100 characters the search is issued with
\* its first 100 characters, and the candidates are scored against the
\* whole joined text
C22_QueryTruncatedScoreNot ==
  longQueryDone =>
    /\ ret.value.query = SubSeq(queryTextOf(call.clusterTexts), 1, 100)
    /\ (call.threshold = 0 /\ scoreOfResult(1) > 0) =>
         /\ ret.value.best # Null
         /\ ret.value.best[1].confidenceScore =
              scoreMatch(queryTextOf(call.clusterTexts),
                         ret.value.results[1].title.s,
                         ret.value.results[1].authors)

\* The 104 characters of LongText against the title Dune: 0.027 on the
\* whole text, where the first 100 characters would give 0.028
C22_Witness ==
  /\ longQueryDone
  /\ ret.value.best # Null
  /\ ret.value.best[1].confidenceScore = 27
  /\ scoreMatch(ret.value.query, ret.value.results[1].title.s,
                ret.value.results[1].authors) = 28

\* C22 as stated: the candidates are scored against the truncated query
C22_AsStated ==
  (longQueryDone /\ ret.value.best # Null) =>
    /\ ret.value.query = SubSeq(queryTextOf(call.clusterTexts), 1, 100)
    /\ ret.value.best[1].confidenceScore =
         scoreMatch(ret.value.query, ret.value.results[1].title.s,
                    ret.value.results[1].authors)

\* A call on fragments of ChainFragments has returned
chainDone ==
  /\ ret.done
  /\ call.fn = "clusterFragments"
  /\ \A k \in 1..Len(call.frags) : call.frags[k] \in ChainFragments

\* The fragment a text of ChainFragments names
fragmentOf(text) == CHOOSE f \in ChainFragments : f.text = text

\* The doubled centers of the fragments of a returned cluster
centersOf(texts) == {center2(fragmentOf(texts[k])) : k \in 1..Len(texts)}

leftmost(S)  == CHOOSE a \in S : \A b \in S : a <= b
rightmost(S) == CHOOSE a \in S : \A b \in S : a >= b

\* Every fragment of the input is in one returned cluster
allClustered ==
  \A f \in ChainFragments :
    Cardinality({k \in 1..Len(call.frags) : call.frags[k] = f}) =
    Cardinality({<<c, k>> \in
                   UNION {{<<c, k>> : k \in 1..Len(ret.value.out[c])} :
                            c \in 1..Len(ret.value.out)} :
                   ret.value.out[c][k] = f.text})

\* C23: in the order of the centers every fragment of a cluster is within
\* proximityPx of the one before it in the cluster, and a cluster starts
\* more than proximityPx after the last fragment of the cluster before it
C23_ChainedThreshold ==
  chainDone =>
    /\ allClustered
    /\ \A c \in 1..Len(ret.value.out) :
         LET S == centersOf(ret.value.out[c])
         IN \A a \in S :
              \/ a = leftmost(S)
              \/ a - rightmost({b \in S : b < a}) <= 2 * call.proximityPx
    /\ \A c \in 2..Len(ret.value.out) :
         leftmost(centersOf(ret.value.out[c]))
           - rightmost(centersOf(ret.value.out[c - 1]))
           > 2 * call.proximityPx

\* The centers 20, 100 and 180 in one cluster, its ends 160 apart, and
\* the fragment at 261 in a cluster of its own
C23_Witness ==
  /\ chainDone
  /\ call.proximityPx = 80
  /\ \E c \in 1..Len(ret.value.out) :
       LET S == centersOf(ret.value.out[c])
       IN rightmost(S) - leftmost(S) > 2 * call.proximityPx

\* C24: inside a returned cluster the texts go from the smallest y to the
\* largest, and the clusters go from left to right by center
C24_TopToBottomLeftToRight ==
  chainDone =>
    /\ \A c \in 1..Len(ret.value.out) :
         \A k \in 2..Len(ret.value.out[c]) :
           fragmentOf(ret.value.out[c][k - 1]).y <=
           fragmentOf(ret.value.out[c][k]).y
    /\ \A c \in 2..Len(ret.value.out) :
         \A a \in centersOf(ret.value.out[c - 1]) :
           \A b \in centersOf(ret.value.out[c]) : a < b

\* Two clusters, the first with its right fragment above its left one
C24_Witness ==
  /\ chainDone
  /\ Len(ret.value.out) = 2
  /\ Len(ret.value.out[1]) = 2
  /\ center2(fragmentOf(ret.value.out[1][1])) >
       center2(fragmentOf(ret.value.out[1][2]))
  /\ fragmentOf(ret.value.out[1][1]).y < fragmentOf(ret.value.out[1][2]).y

\* C25: scoreMatch returns a whole number of thousandths between 0 and 1
C25_ScoreInUnitRange ==
  scoreDone =>
    /\ ret.value.score \in 0..1000
    /\ ret.value.bare \in 0..1000

\* The text "Dune Frank Herbert" against the same title by Frank Herbert
\* and Brian Herbert scores 1, and 0.7 without the authors
C25_Witness ==
  /\ scoreDone
  /\ Len(call.bookAuthors) = 2
  /\ ret.value.score = 1000
  /\ ret.value.bare = 700

\* The candidates the provider holds for a cluster of the scenes, each with
\* its id and the score the callback gives it
CandidateScores ==
  [cl \in SceneClusters |->
     LET found == mapItems(Catalogue(slice(queryTextOf(cl), QueryCap)))
     IN [n \in 1..Len(found) |->
           [id    |-> found[n].googleBooksId,
            score |-> scoreMatch(queryTextOf(cl), found[n].title.s,
                                 found[n].authors)]]] @@ <<>>

\* The first of the candidates with the highest score
topCandidate(cands) ==
  cands[CHOOSE n \in 1..Len(cands) :
          /\ \A k \in 1..Len(cands) : cands[k].score <= cands[n].score
          /\ \A k \in 1..(n - 1) : cands[k].score < cands[n].score]

\* C26: a returned list has at most one entry per cluster and the entry
\* of a cluster is its top-scoring candidate; a cluster whose top
\* candidate has been seen has no entry, whatever its other candidates
C26_OnlyTopCandidate ==
  \A r \in Runs :
    pc[r] = "returned" =>
      /\ \A m, n \in 1..Len(result[r]) :
           m # n => result[r][m].cluster # result[r][n].cluster
      /\ \A m \in 1..Len(result[r]) :
           LET cands == CandidateScores[clusters[r][result[r][m].cluster]]
           IN /\ Len(cands) > 0
              /\ result[r][m].book.googleBooksId = topCandidate(cands).id
              /\ result[r][m].book.confidenceScore =
                   topCandidate(cands).score

\* A returned call with a cluster that has no entry, its top candidate's
\* volume being the entry of another cluster, while another candidate of
\* the cluster reaches the threshold and has an id that was never seen
C26_Witness ==
  \E r \in Runs :
    /\ pc[r] = "returned"
    /\ \E j \in 1..Len(clusters[r]) :
         LET cands == CandidateScores[clusters[r][j]]
         IN /\ queryOf(r, j) \in DOMAIN provider
            /\ provider[queryOf(r, j)] = "ok"
            /\ \A m \in 1..Len(result[r]) : result[r][m].cluster # j
            /\ \E m \in 1..Len(result[r]) :
                 idsOf(result[r])[m] = topCandidate(cands).id
            /\ \E n \in 1..Len(cands) :
                 /\ cands[n].score > 0
                 /\ cands[n].score >= confidenceThreshold
                 /\ cands[n].id \notin seenIds[r]

\* C27: at most one frame request is in flight, and the processing flag is
\* up exactly while one is
C27_OneFrameInFlight ==
  /\ Cardinality(requests) <= 1
  /\ isProcessingRef <=> requests # {}

\* A second frame request in flight after the first one has settled
C27_Witness ==
  /\ isProcessingRef
  /\ \E req \in requests : req.n = 2

\* C28: since the last reset the map holds, for every id reported, one
\* entry with the highest confidence among the responses processed
C28_MapKeepsMaximum ==
  /\ DOMAIN detectedMapRef = DOMAIN reported
  /\ \A b \in DOMAIN detectedMapRef :
       detectedMapRef[b].confidenceScore = reported[b]

\* Two frames of one session processed and an entry of confidence 0.9 in
\* the map
C28_Witness ==
  /\ sent >= 2
  /\ requests = {}
  /\ \E b \in DOMAIN detectedMapRef :
       /\ detectedMapRef[b].confidenceScore = 900
       /\ detectedMapRef[b].sentIn = epoch
  /\ epoch = 1

\* C29: whenever the mode is not "scanning" no capture interval is armed
C29_NoIntervalOutsideScanning ==
  mode # "scanning" => timers = {}

\* C30: every entry of the map comes from a frame request sent since the
\* last call of startScanning
C30_OnlyCurrentSession ==
  \A b \in DOMAIN detectedMapRef : detectedMapRef[b].sentIn = epoch

====
